---- MODULE Spec2Model ----
(***************************************************************************)
(* ReferentialGym: the grouped-sample distractor selector                  *)
(* (DualLabeledDataset) and the training orchestrator                      *)
(* (ReferentialGame.train) with its stream registry.                       *)
(*                                                                         *)
(* Python indices are 0-based; a list l is the sequence whose element      *)
(* l[i] is at position i+1.                                                *)
(***************************************************************************)
EXTENDS Integers, Sequences, FiniteSets, TLC

(***************************************************************************)
(* Bounds of the model.                                                    *)
(***************************************************************************)
\* largest number of items of the two partitions together
MaxItems == 3
\* largest distractor count of a dataset
MaxDistractors == 2
\* largest size of an excepts list
MaxExcepts == 1
\* passes of the selection loop that are counted (the counter saturates)
MaxPasses == 3

\* class keys of the underlying partitions (getclass), also their labels
ClassKeys == {0, 1}

\* the two partitions / run modes of a DualLabeledDataset
Parts == {"train", "test"}

(***************************************************************************)
(* Small helpers.                                                          *)
(***************************************************************************)
Range(s) == {s[i] : i \in DOMAIN s}

SeqsUpTo(S, lo, hi) == UNION {[1..n -> S] : n \in lo..hi}

\* an optional argument: None, or a given value
None == [given |-> FALSE, v |-> {}]
Some(x) == [given |-> TRUE, v |-> x]

(***************************************************************************)
(* DualLabeledDataset: state.                                              *)
(***************************************************************************)
VARIABLES
  train_labels,          \* getclass(idx) of datasets['train'], idx = position-1
  test_labels,           \* getclass(idx) of datasets['test']
  self_mode,             \* self.mode
  nbr_distractors,       \* self.nbr_distractors: mode -> count
  train_classes,         \* self.train_classes: class -> list of indices
  test_classes,          \* self.test_classes
  nbr_classes,           \* self.nbr_classes
  payload,               \* per partition: what its items supply (None until fetched)
  pc,                    \* position of the sample call
  idx,                   \* the target index (after the test offset)
  from_class,            \* optional set of class keys
  excepts,               \* optional set of indices
  target_only,
  not_enough_elements,
  set_indices,
  indices,
  nbr_samples,
  passes,                \* passes of the while loop begun in this call
  fetched,               \* items of indices already fetched
  sample_d,              \* the grouped sample being assembled
  err                    \* the exception that ended the call, "" if none

dsvars == <<train_labels, test_labels, self_mode, nbr_distractors, train_classes,
            test_classes, nbr_classes, payload, pc, idx, from_class, excepts,
            target_only, not_enough_elements, set_indices, indices, nbr_samples,
            passes, fetched, sample_d, err>>

(***************************************************************************)
(* DualLabeledDataset.__init__                                             *)
(***************************************************************************)
EmptyMap == [k \in {} |-> <<>>]

\* one pass of "for idx in range(len(dataset))" from item k on: the class of
\* item k gets offset+k appended
RECURSIVE AddIndices(_, _, _, _)
AddIndices(classes, labels, offset, k) ==
  IF k >= Len(labels) THEN classes
  ELSE LET cl == labels[k + 1]
           c1 == IF cl \in DOMAIN classes THEN classes ELSE classes @@ (cl :> <<>>)
       IN AddIndices([c1 EXCEPT ![cl] = Append(@, offset + k)], labels, offset, k + 1)

TrainClasses(trainl) == AddIndices(EmptyMap, trainl, 0, 0)

\* the test indices are not offset
test_idx_offset_none(trainl) == 0

test_idx_offset(trainl) == Len(trainl)

\* the train classes are added to the test classes
MergeTrain(tc, trc) ==
  [cl \in DOMAIN tc \cup DOMAIN trc |->
     (IF cl \in DOMAIN tc THEN tc[cl] ELSE <<>>) \o
     (IF cl \in DOMAIN trc THEN trc[cl] ELSE <<>>)]

TestClasses(trainl, testl) ==
  MergeTrain(AddIndices(EmptyMap, testl, test_idx_offset(trainl), 0), TrainClasses(trainl))

NbrClasses(trainl, testl) == Cardinality(DOMAIN TestClasses(trainl, testl))

\* __len__
DatasetLen == IF self_mode = "test" THEN Len(test_labels) ELSE Len(train_labels)

\* getNbrClasses
getNbrClasses == IF self_mode = "test" THEN nbr_classes ELSE Cardinality(DOMAIN train_classes)

\* what the items of a partition supply besides "experiences": the label, a
\* latent of their own, a real-valued latent of their own; the tensors an
\* item supplies have dimension dim
Payloads ==
  {[labels |-> FALSE, latents |-> FALSE, values |-> FALSE, dim |-> 2]}
  \cup [labels : {TRUE}, latents : BOOLEAN, values : BOOLEAN, dim : {2}]

NoPayload == [labels |-> FALSE, latents |-> FALSE, values |-> FALSE, dim |-> 0]

EmptySample == [experiences |-> <<>>, exp_labels |-> <<>>, exp_latents |-> <<>>,
                exp_latents_values |-> <<>>, aliased |-> FALSE]

DatasetInit ==
  /\ train_labels \in SeqsUpTo(ClassKeys, 1, MaxItems)
  /\ test_labels \in SeqsUpTo(ClassKeys, 0, MaxItems - Len(train_labels))
  /\ self_mode \in Parts
  /\ \E n \in 0..MaxDistractors : nbr_distractors = [m \in Parts |-> n]
  /\ train_classes = TrainClasses(train_labels)
  /\ test_classes = TestClasses(train_labels, test_labels)
  /\ nbr_classes = NbrClasses(train_labels, test_labels)
  /\ payload = [p \in Parts |-> NoPayload]
  /\ pc = "idle"
  /\ idx = 0
  /\ from_class = None
  /\ excepts = None
  /\ target_only = FALSE
  /\ not_enough_elements = FALSE
  /\ set_indices = {}
  /\ indices = <<>>
  /\ nbr_samples = 0
  /\ passes = 0
  /\ fetched = 0
  /\ sample_d = EmptySample
  /\ err = ""

(***************************************************************************)
(* DualLabeledDataset.sample                                               *)
(***************************************************************************)
\* classes = self.train_classes, or self.test_classes if 'test' in self.mode
ActiveClasses == IF self_mode = "test" THEN test_classes ELSE train_classes

\* every global index of the paired dataset
AllIndices == 0..(Len(train_labels) + Len(test_labels) - 1)

FromClassArgs == {None} \cup {Some(s) : s \in SUBSET ClassKeys}

ExceptsArgs == {None} \cup {Some(s) : s \in {e \in SUBSET AllIndices : Cardinality(e) <= MaxExcepts}}

\* entry: the mode picks the map, and a test-mode target is offset
\* the target keeps the index the caller gave
TargetIndexAsGiven(i) == i

\* lines 84-86: in test mode the target index is moved past the train partition
TargetIndex(i) == IF self_mode = "test" THEN i + Len(train_labels) ELSE i

Call(i, fc, ex, to) ==
  /\ pc = "idle"
  /\ idx' = TargetIndex(i)
  /\ from_class' = fc
  /\ excepts' = ex
  /\ target_only' = to
  /\ not_enough_elements' = FALSE
  /\ passes' = 0
  /\ pc' = "select"
  /\ UNCHANGED <<train_labels, test_labels, self_mode, nbr_distractors, train_classes,
                 test_classes, nbr_classes, payload, set_indices, indices, nbr_samples,
                 fetched, sample_d, err>>

\* the working set of one pass: the indices of the candidate classes minus excepts
WorkingSet(classes, fc, ex) ==
  LET s == UNION {Range(classes[c]) : c \in fc}
  IN IF ex.given THEN s \ ex.v ELSE s

\* the restriction of the caller is kept on every pass
CandidateClassesOfCaller(classes, fc, nee) ==
  IF ~fc.given THEN Some(DOMAIN classes) ELSE fc

\* the candidate classes of a pass: "if from_class is None or
\* not_enough_elements: from_class = list(classes.keys())". The variable
\* from_class keeps what the caller passed; the list the code rebinds it to is
\* this one, computed anew on every pass
CandidateClasses(classes, fc, nee) ==
  IF ~fc.given \/ nee THEN Some(DOMAIN classes) ELSE fc

\* the comparison off by one: a set one short of the count is taken as enough
NotEnoughOffByOne(s, n) == Cardinality(s) < n - 1

\* "if len(set_indices) < nbr_samples": widen and go round again, or leave the loop
NotEnough(s, n) == Cardinality(s) < n

\* the end of a pass, the target appended: lines 109-116
EndOfPass(s, n) ==
  /\ indices' = <<idx>>
  /\ set_indices' = s
  /\ nbr_samples' = n
  /\ IF NotEnough(s, n)
       THEN /\ not_enough_elements' = TRUE
            /\ pc' = "select"
       ELSE /\ not_enough_elements' = not_enough_elements
            /\ pc' = IF n = 0 THEN "fetch" ELSE "draw"

\* one pass of the while loop up to the removal of the target: lines 91-104
SelectPass ==
  /\ pc = "select"
  /\ passes' = IF passes < MaxPasses THEN passes + 1 ELSE passes
  /\ LET classes == ActiveClasses
         fc == CandidateClasses(classes, from_class, not_enough_elements)
         n == nbr_distractors[self_mode]
     IN /\ IF ~(fc.v \subseteq DOMAIN classes)
             THEN \* classes[class_idx] of an unknown class
                  /\ pc' = "error"
                  /\ err' = "KeyError"
                  /\ UNCHANGED <<set_indices, indices, nbr_samples, not_enough_elements>>
             ELSE LET s == WorkingSet(classes, fc.v, excepts)
                  IN IF idx \in s
                       THEN /\ EndOfPass(s \ {idx}, n)
                            /\ err' = err
                       ELSE \* set_indices.remove(idx) raises: caught, debugger
                            /\ pc' = "debugger"
                            /\ set_indices' = s
                            /\ indices' = <<>>
                            /\ nbr_samples' = n
                            /\ UNCHANGED <<not_enough_elements, err>>
  /\ UNCHANGED <<train_labels, test_labels, self_mode, nbr_distractors, train_classes,
                 test_classes, nbr_classes, payload, idx, from_class, excepts,
                 target_only, fetched, sample_d>>

\* "import ipdb; ipdb.set_trace()": the import or the session ends the call
\* with an exception, or the session is continued and the pass goes on
Debugger ==
  /\ pc = "debugger"
  /\ \/ /\ pc' = "error"
        /\ err' = "debugger"
        /\ UNCHANGED <<indices, set_indices, nbr_samples, not_enough_elements>>
     \/ /\ EndOfPass(set_indices, nbr_samples)
        /\ err' = err
  /\ UNCHANGED <<train_labels, test_labels, self_mode, nbr_distractors, train_classes,
                 test_classes, nbr_classes, payload, idx, from_class, excepts,
                 target_only, passes, fetched, sample_d>>

\* one turn of "for choice_idx in range(nbr_samples)": lines 118-121
Draw ==
  /\ pc = "draw"
  /\ \E chosen \in set_indices :
       /\ set_indices' = set_indices \ {chosen}
       /\ indices' = Append(indices, chosen)
  /\ pc' = IF Len(indices') = 1 + nbr_samples THEN "fetch" ELSE "draw"
  /\ UNCHANGED <<train_labels, test_labels, self_mode, nbr_distractors, train_classes,
                 test_classes, nbr_classes, payload, idx, from_class, excepts,
                 target_only, not_enough_elements, nbr_samples, passes, fetched,
                 sample_d, err>>

\* the partition that owns a global index, and the index within it: lines 133-136
OwnerOf(i) == IF i >= Len(train_labels) THEN "test" ELSE "train"
LocalIndex(i) == IF i >= Len(train_labels) THEN i - Len(train_labels) ELSE i
LabelOf(i) == IF OwnerOf(i) = "test" THEN test_labels[LocalIndex(i) + 1]
              ELSE train_labels[LocalIndex(i) + 1]

\* torch.zeros(nbr_classes) with latent[label] = 1.0
OneHot(n, label) == [k \in 1..n |-> IF k = label + 1 THEN 1 ELSE 0]

\* tensors an item supplies itself (never a 0/1 vector)
OwnLatent(p, label) == [k \in 1..p.dim |-> 2 + label]
OwnValue(p, label) == [k \in 1..p.dim |-> 4 + label]

\* sample_d after the keys of one item were merged and its latents derived
\* (lines 139-161); the keys are taken in the order experiences, exp_labels,
\* exp_latents, exp_latents_values. Once exp_latents_values was set to the
\* exp_latents list, both names hold one list.
MergeItem(sd, p, i) ==
  LET label == LabelOf(i)
      item == [part |-> OwnerOf(i), item |-> LocalIndex(i)]
      \* exp_latents supplied by the item
      l1 == IF p.latents THEN Append(sd.exp_latents, OwnLatent(p, label)) ELSE sd.exp_latents
      \* exp_latents_values supplied by the item: appended to the shared list if aliased
      l2 == IF p.values /\ sd.aliased THEN Append(l1, OwnValue(p, label)) ELSE l1
      v2 == IF p.values /\ ~sd.aliased THEN Append(sd.exp_latents_values, OwnValue(p, label))
            ELSE sd.exp_latents_values
      \* need_reg["exp_latents"]
      l3 == IF ~p.latents THEN Append(l2, OneHot(nbr_classes, label)) ELSE l2
      \* need_reg["exp_latents_values"]
      al == sd.aliased \/ ~p.values
  IN [experiences |-> Append(sd.experiences, item),
      exp_labels |-> IF p.labels THEN Append(sd.exp_labels, label) ELSE sd.exp_labels,
      exp_latents |-> l3,
      exp_latents_values |-> IF al THEN l3 ELSE v2,
      aliased |-> al]

\* the label of the item is not asked for
FetchErrorUnchecked(p, i) ==
  IF ~p.latents /\ LabelOf(i) >= nbr_classes THEN "IndexError" ELSE ""

\* the exception one turn of the fetch loop raises, "" if none
FetchError(p, i) ==
  IF ~p.labels THEN "AssertionError"
  ELSE IF ~p.latents /\ LabelOf(i) >= nbr_classes THEN "IndexError"
  ELSE ""

\* torch.stack of a list of tensors needs one shape
Stackable(l) == \A a, b \in DOMAIN l : Len(l[a]) = Len(l[b])

\* lines 165-175: the tensor lists are stacked, the indices attached
StackError(sd) ==
  IF Stackable(sd.exp_latents) /\ Stackable(sd.exp_latents_values) THEN "" ELSE "stack"

\* "for idx in indices" from turn k on (lines 130-163): the sample, the
\* number of turns run and the exception that ended the loop ("" if none)
RECURSIVE FetchLoop(_, _, _, _, _)
FetchLoop(sd, ind, k, pl, to) ==
  IF k > Len(ind) THEN [sample_d |-> sd, fetched |-> k - 1, err |-> ""]
  ELSE LET i == ind[k]
           p == pl[OwnerOf(i)]
           sd1 == MergeItem(sd, p, i)
       IN IF FetchError(p, i) # ""
            THEN [sample_d |-> sd1, fetched |-> k, err |-> FetchError(p, i)]
          ELSE IF to THEN [sample_d |-> sd1, fetched |-> k, err |-> ""]
          ELSE FetchLoop(sd1, ind, k + 1, pl, to)

\* the partitions the loop reads items of
PartsRead(ind, to) == {OwnerOf(ind[k]) : k \in (IF to THEN {1} ELSE DOMAIN ind)}

\* lines 123-175: the items are fetched and merged, the lists stacked, the
\* indices attached
Fetch ==
  /\ pc = "fetch"
  /\ \E pl \in [Parts -> Payloads \cup {NoPayload}] :
       /\ \A q \in Parts : pl[q] = NoPayload <=> q \notin PartsRead(indices, target_only)
       /\ LET r == FetchLoop(EmptySample, indices, 1, pl, target_only)
              e == IF r.err # "" THEN r.err ELSE StackError(r.sample_d)
          IN /\ payload' = pl
             /\ sample_d' = r.sample_d
             /\ fetched' = r.fetched
             /\ err' = e
             /\ pc' = IF e # "" THEN "error" ELSE "returned"
  /\ UNCHANGED <<train_labels, test_labels, self_mode, nbr_distractors, train_classes,
                 test_classes, nbr_classes, idx, from_class, excepts, target_only,
                 not_enough_elements, set_indices, indices, nbr_samples, passes>>

\* the value sample returns: sample_d with "indices" attached
Returned == pc = "returned"

\* the calls made: every restriction and exclusion with the distractors
\* fetched, and the target alone with neither
CallArgs == (FromClassArgs \X ExceptsArgs \X {FALSE}) \cup {<<None, None, TRUE>>}

SampleCall ==
  \E i \in 0..(DatasetLen - 1), a \in CallArgs : Call(i, a[1], a[2], a[3])

(***************************************************************************)
(* The stream registry (StreamHandler): paths are tuples of segments,      *)
(* "signals:epoch" is <<"signals", "epoch">>. A mapping is a function from *)
(* paths, relative to where it is stored, to values.                       *)
(***************************************************************************)
\* sections whose entries are named series: a write appends
SeriesSections == {"losses_dict", "logs_dict"}

\* the sections registered at construction: they accumulate per key
PreRegistered == {"losses_dict", "logs_dict", "signals"}

NoLeaves == [q \in {} |-> 0]

EmptyRegistry == [tops |-> {}, leaves |-> NoLeaves]

IsPrefix(p, q) == Len(p) <= Len(q) /\ SubSeq(q, 1, Len(p)) = p

\* the leaves strictly below a path
Below(reg, p) == {q \in DOMAIN reg.leaves : IsPrefix(p, q) /\ q # p}

\* the mapping stored below a path
SubMap(reg, p) ==
  [r \in {SubSeq(q, Len(p) + 1, Len(q)) : q \in Below(reg, p)} |-> reg.leaves[p \o r]]

\* get(path): the leaf, the mapping of a namespace, or the absent sentinel
Get(reg, p) ==
  IF p \in DOMAIN reg.leaves THEN Some(reg.leaves[p])
  ELSE IF Below(reg, p) # {} \/ (Len(p) = 1 /\ p[1] \in reg.tops) THEN Some(SubMap(reg, p))
  ELSE None

\* the leaf keeps the value it has, if it has one
SetLeafOnce(reg, p, v) ==
  [tops |-> reg.tops \cup {p[1]},
   leaves |-> [q \in DOMAIN reg.leaves \cup {p} |->
                 IF q \in DOMAIN reg.leaves THEN reg.leaves[q] ELSE v]]

\* a leaf is set, the levels above it created; what was stored at the path,
\* below it or in place of a level above it is gone
SetLeaf(reg, p, v) ==
  [tops |-> reg.tops \cup {p[1]},
   leaves |-> [q \in {x \in DOMAIN reg.leaves : ~IsPrefix(p, x) /\ ~IsPrefix(x, p)} \cup {p} |->
                 IF q = p THEN v ELSE reg.leaves[q]]]

\* the paths of the named series
IsSeries(p) == p[1] \in SeriesSections /\ Len(p) > 1

\* a write of one leaf: appended to the series in a series section, set otherwise
WriteLeaf(reg, p, v) ==
  IF IsSeries(p)
    THEN SetLeaf(reg, p, Append(IF p \in DOMAIN reg.leaves THEN reg.leaves[p] ELSE <<>>, v))
    ELSE SetLeaf(reg, p, v)

RECURSIVE WriteAll(_, _, _, _)
WriteAll(reg, p, m, keys) ==
  IF keys = {} THEN reg
  ELSE LET k == CHOOSE x \in keys : TRUE
       IN WriteAll(WriteLeaf(reg, p \o k, m[k]), p, m, keys \ {k})

\* update(path, value): a mapping written to a pre-registered section is
\* accumulated per key, every other write sets the leaf
Update(reg, p, v) ==
  IF Len(p) = 1 /\ p[1] \in PreRegistered
    THEN WriteAll([reg EXCEPT !.tops = @ \cup {p[1]}], p, v, DOMAIN v)
    ELSE WriteLeaf(reg, p, v)

\* register(top): the namespace exists, what it holds is kept
Register(reg, top) == [reg EXCEPT !.tops = @ \cup {top}]

\* reset(top): the namespace is empty again
Reset(reg, top) ==
  [tops |-> reg.tops \cup {top},
   leaves |-> [q \in {x \in DOMAIN reg.leaves : ~IsPrefix(<<top>>, x)} |-> reg.leaves[q]]]

\* a module assigns logs_dict[key] = value on the mapping the registry holds
DictAssign(reg, top, key, v) == SetLeaf(reg, <<top, key>>, v)

(***************************************************************************)
(* ReferentialGame: state.                                                 *)
(***************************************************************************)
\* most epochs asked of train
MaxEpochs == 2
\* most batches of a data loader
MaxBatches == 2
\* largest config['nbr_experience_repetition']
MaxReps == 2
\* largest config['nbr_communication_round']
MaxRounds == 2
\* largest config['curriculum_distractors_window_size']
MaxWindow == 1
\* largest config['nbr_distractors'] of a mode under the curriculum
MaxCap == 3

\* "windowed_accuracy > 75"
AccThreshold == 75

\* accuracies a batch may reach: below and above the threshold
Accuracies == {50, 100}

\* self.pipelines, in the order of the dict
Pipelines == << [id |-> "metrics", modules |-> <<"metric">>],
                [id |-> "referential_game", modules |-> <<"speaker", "listener">>] >>

\* self.modules
Modules == {"speaker", "listener", "metric"}

VARIABLES
  config,                      \* self.config
  datasets,                    \* the keys of self.datasets, in order
  loader_len,                  \* len(data_loader) of each mode
  logger,                      \* whether train is given a logger
  save_epoch_interval,         \* 0 stands for None
  streams,                     \* self.stream_handler
  tpc,                         \* position of train
  nbr_epoch,
  epoch,
  it_dataset,
  mode,
  nbr_experience_repetition,
  idx_stimulus,
  it_rep,
  idx_round,                   \* -1 before the first round of a repetition
  it_datasamples,
  it_samples,
  it_steps,
  windowed_total,              \* windowed_accuracy * window_count
  window_count,
  acc,                         \* optional: unbound until an accuracy was logged
  pipe_pos,                    \* the pipeline being served
  mod_pos,                     \* its module to run next
  computes,                    \* compute calls so far
  listener_input,              \* what the listener was last given
  serve_start,                 \* computes when the current serve began
  served,                      \* serves of each pipeline in this repetition
  invoked,                     \* the modules the current serve has run, in order
  checkpoint,                  \* the signals.conf of the save path, if written
  saves,                       \* the epochs train saved after
  resumed,                     \* the orchestrator was built with load_path
  terr,                        \* the exception that ended train, "" if none
  reg_call,                    \* the last call on a registry that is driven directly
  init_epoch,                  \* the epoch train started at
  ppc,                         \* position of a save or load followed on its own
  failing,                     \* the artifacts whose write or read raises in it
  handled,                     \* the artifacts it has written or loaded
  reported,                    \* the artifacts whose exception it caught and printed
  mpc,                         \* how the metric module was made, "new" before
  arg_input_stream_ids,        \* the input_stream_ids the caller gave
  input_stream_ids,            \* the input_stream_ids the module resolves with
  self_config,                 \* the config of the metric module
  buffers,                     \* its accumulation buffers
  metric_logs_dict,            \* the logs_dict its compute is handed
  input_streams_dict,          \* the inputs of its last compute call, if any
  active_dims,                 \* the dimensions the last flush kept, if any
  cerr                         \* the exception that ended its compute, "" if none

trvars == <<config, datasets, loader_len, logger, save_epoch_interval, streams, tpc,
            nbr_epoch, epoch, it_dataset, mode, nbr_experience_repetition,
            idx_stimulus, it_rep, idx_round, it_datasamples, it_samples, it_steps,
            windowed_total, window_count, acc, pipe_pos, mod_pos, computes,
            listener_input, serve_start, served, invoked, checkpoint, saves,
            resumed, terr, reg_call, init_epoch, ppc, failing, handled, reported, mpc,
            arg_input_stream_ids, input_stream_ids, self_config, buffers, metric_logs_dict,
            input_streams_dict, active_dims, cerr>>

vars == <<dsvars, trvars>>

\* a save or load followed artifact by artifact
persist == <<ppc, failing, handled, reported>>

\* the construction of the metric module
metric == <<mpc, arg_input_stream_ids, input_stream_ids, self_config, buffers,
            metric_logs_dict, input_streams_dict, active_dims, cerr>>

\* what the steps of train leave alone
setup == <<config, datasets, loader_len, logger, save_epoch_interval, reg_call, persist,
           metric>>

\* the local variables of the loops of train
loopvars == <<epoch, it_dataset, mode, nbr_experience_repetition, idx_stimulus,
              it_rep, idx_round>>

counters == <<it_datasamples, it_samples, it_steps>>

window == <<windowed_total, window_count>>

serving == <<pipe_pos, mod_pos, computes, listener_input, serve_start, served, invoked>>

(***************************************************************************)
(* ReferentialGame.__init__                                                *)
(***************************************************************************)
DatasetOrders == {<<"train", "test">>, <<"test", "train">>}

Config(reps, rounds, curr, win, maxd) ==
  [nbr_experience_repetition |-> reps,       \* 0: the key is not in the config
   nbr_communication_round |-> rounds,
   use_curriculum_nbr_distractors |-> curr,
   curriculum_distractors_window_size |-> win,
   nbr_distractors |-> maxd,
   use_cuda |-> FALSE]

Setup(ds, tb, cfg, lg, sv) ==
  [datasets |-> ds, loader_len |-> [m \in Range(ds) |-> IF m = "train" THEN tb ELSE 1],
   config |-> cfg, logger |-> lg, save_epoch_interval |-> sv]

\* the runs of the model: the loops with one and with the most batches,
\* repetitions and rounds, without curriculum and without saving; the
\* curriculum with every cap of the train mode, the least and the largest
\* cap of the test mode and the least and the largest window over the
\* longest train loader, with and without a logger, saved after every
\* epoch; and every save interval
Setups ==
  {Setup(ds, tb, Config(reps, rounds, FALSE, 0, [m \in Parts |-> 1]), TRUE, 0) :
     ds \in DatasetOrders, tb \in {1, MaxBatches}, reps \in {0, MaxReps},
     rounds \in 1..MaxRounds}
  \cup
  {Setup(ds, MaxBatches, Config(0, 1, TRUE, win, maxd), lg, 1) :
     ds \in DatasetOrders, win \in {0, MaxWindow},
     maxd \in {f \in [Parts -> 1..MaxCap] : f["test"] \in {1, MaxCap}}, lg \in BOOLEAN}
  \cup
  {Setup(<<"train", "test">>, 1, Config(0, 1, FALSE, 0, [m \in Parts |-> 1]), TRUE, sv) :
     sv \in 1..MaxEpochs}

\* a mapping of the registry with the keys of a record or function
AsMapping(f) == [k \in {<<x>> : x \in DOMAIN f} |-> f[k[1]]]

RECURSIVE RegisterModules(_, _)
RegisterModules(reg, ms) ==
  IF ms = {} THEN reg
  ELSE LET m == CHOOSE x \in ms : TRUE
       IN RegisterModules(Update(reg, <<"modules", m, "ref">>, m), ms \ {m})

\* lines 52-67: the sections are registered, the signals of the checkpoint
\* loaded (load_signals, when load_path is given and the file can be read),
\* the config and the modules written
Construct(cfg, ckpt, load) ==
  LET r0 == Register(Register(Register(EmptyRegistry, "losses_dict"), "logs_dict"), "signals")
      r1 == IF load /\ ckpt.given THEN Update(r0, <<"signals">>, ckpt.v) ELSE r0
      r2 == WriteAll(r1, <<"config">>, AsMapping(cfg), DOMAIN AsMapping(cfg))
  IN RegisterModules(r2, Modules)

NoCount == [q \in {} |-> 0]

NoCall == [op |-> "none", p |-> <<>>, v |-> 0]

\* no save or load is followed
NotPersisting ==
  /\ ppc = "idle"
  /\ failing = {}
  /\ handled = {}
  /\ reported = {}

\* the accumulation buffers of the metric module
BufferNames ==
  {"representations", "latent_representations", "latent_values_representations",
   "representations_indices", "indices"}

\* the metric module is not made yet
NotBuilt ==
  /\ mpc = "new"
  /\ arg_input_stream_ids = None
  /\ input_stream_ids = None
  /\ self_config = [epoch_period |-> 1, threshold |-> 0]
  /\ buffers = [b \in BufferNames |-> <<>>]
  /\ metric_logs_dict = <<>>
  /\ input_streams_dict = None
  /\ active_dims = None
  /\ cerr = ""

TrainInit ==
  /\ \E su \in Setups :
       /\ config = su.config
       /\ datasets = su.datasets
       /\ loader_len = su.loader_len
       /\ logger = su.logger
       /\ save_epoch_interval = su.save_epoch_interval
  /\ nbr_distractors = config.nbr_distractors
  /\ streams = Construct(config, None, FALSE)
  /\ tpc = "init"
  /\ nbr_epoch = 0
  /\ epoch = 0
  /\ it_dataset = 0
  /\ mode = ""
  /\ nbr_experience_repetition = 1
  /\ idx_stimulus = 0
  /\ it_rep = 0
  /\ idx_round = -1
  /\ it_datasamples = NoCount
  /\ it_samples = NoCount
  /\ it_steps = NoCount
  /\ windowed_total = 0
  /\ window_count = 0
  /\ acc = None
  /\ pipe_pos = 0
  /\ mod_pos = 0
  /\ computes = 0
  /\ listener_input = None
  /\ serve_start = 0
  /\ served = [q \in 1..Len(Pipelines) |-> 0]
  /\ invoked = <<>>
  /\ checkpoint = None
  /\ saves = {}
  /\ resumed = FALSE
  /\ terr = ""
  /\ reg_call = NoCall
  /\ init_epoch = 0
  /\ NotPersisting
  /\ NotBuilt

\* the dataset of the selector stays as constructed while train runs
DatasetIdle ==
  /\ train_labels = <<0>>
  /\ test_labels = <<>>
  /\ self_mode = "train"
  /\ train_classes = TrainClasses(train_labels)
  /\ test_classes = TestClasses(train_labels, test_labels)
  /\ nbr_classes = NbrClasses(train_labels, test_labels)
  /\ payload = [q \in Parts |-> NoPayload]
  /\ pc = "idle"
  /\ idx = 0
  /\ from_class = None
  /\ excepts = None
  /\ target_only = FALSE
  /\ not_enough_elements = FALSE
  /\ set_indices = {}
  /\ indices = <<>>
  /\ nbr_samples = 0
  /\ passes = 0
  /\ fetched = 0
  /\ sample_d = EmptySample
  /\ err = ""

dsrest == <<train_labels, test_labels, self_mode, train_classes, test_classes,
            nbr_classes, payload, pc, idx, from_class, excepts, target_only,
            not_enough_elements, set_indices, indices, nbr_samples, passes, fetched,
            sample_d, err>>

(***************************************************************************)
(* ReferentialGame.train                                                   *)
(***************************************************************************)
Sig(k) == <<"signals", k>>

\* a run of update calls, in order; each is <<path, value>>
RECURSIVE Updates(_, _)
Updates(reg, us) ==
  IF us = <<>> THEN reg
  ELSE Updates(Update(reg, Head(us)[1], Head(us)[2]), Tail(us))

\* a registry value, or a default when the path is absent ("is None")
GetOr(reg, p, d) == IF Get(reg, p).given THEN Get(reg, p).v ELSE d

UseCurriculum == config.use_curriculum_nbr_distractors

\* the mode of the data loader the mode loop is at
SlotMode == datasets[it_dataset + 1]

\* setNbrDistractors(n, mode=m) on self.datasets[m], for every m of ms
SetNbrDistractors(nd, ms, n) == [m \in DOMAIN nd |-> IF m \in ms THEN n ELSE nd[m]]

\* the counters start at one
FreshCountersFromOne == [m \in Range(datasets) |-> 1]

\* "{mode:0 for mode in self.datasets}"
FreshCounters == [m \in Range(datasets) |-> 0]

\* the epochs start at zero whatever the signals hold
InitEpochZero(reg) == 0

\* lines 222-224: "init_epoch = self.stream_handler["signals:epoch"]", 0 if None
InitEpoch(reg) == GetOr(reg, Sig("epoch"), 0)

\* lines 199-226: the counters, the curriculum and the first epoch are taken
\* from the signals, or started afresh
TrainBegin(n) ==
  /\ tpc = "init"
  /\ nbr_epoch' = n
  /\ LET init_curriculum_nbr_distractors ==
           GetOr(streams, Sig("curriculum_nbr_distractors"), 1)
         r1 == IF logger THEN Update(streams, <<"modules", "logger", "ref">>, "logger")
               ELSE streams
     IN /\ it_datasamples' = GetOr(streams, Sig("it_datasamples"), FreshCounters)
        /\ it_samples' = GetOr(streams, Sig("it_samples"), FreshCounters)
        /\ it_steps' = GetOr(streams, Sig("it_steps"), FreshCounters)
        /\ IF UseCurriculum
             THEN /\ windowed_total' = 0
                  /\ window_count' = 0
                  /\ nbr_distractors' = SetNbrDistractors(nbr_distractors, Range(datasets),
                                                          init_curriculum_nbr_distractors)
             ELSE UNCHANGED <<windowed_total, window_count, nbr_distractors>>
        /\ streams' = Update(r1, Sig("use_cuda"), config.use_cuda)
        /\ init_epoch' = InitEpoch(streams)
        /\ epoch' = InitEpoch(streams)
  /\ acc' = None
  /\ tpc' = "epoch"
  /\ UNCHANGED <<setup, it_dataset, mode, nbr_experience_repetition, idx_stimulus, it_rep,
                 idx_round, serving, checkpoint, saves, resumed, terr, dsrest>>

\* line 228-230: the next epoch begins
EpochBegin ==
  /\ tpc = "epoch"
  /\ epoch < nbr_epoch
  /\ streams' = Update(streams, Sig("epoch"), epoch)
  /\ it_dataset' = 0
  /\ tpc' = "slot"
  /\ UNCHANGED <<setup, nbr_epoch, init_epoch, epoch, mode, nbr_experience_repetition, idx_stimulus,
                 it_rep, idx_round, counters, window, acc, serving, checkpoint, saves,
                 resumed, terr, nbr_distractors, dsrest>>

\* line 400: the epochs are over
TrainReturn ==
  /\ tpc = "epoch"
  /\ epoch >= nbr_epoch
  /\ tpc' = "done"
  /\ UNCHANGED <<setup, streams, nbr_epoch, init_epoch, loopvars, counters, window, acc, serving,
                 checkpoint, saves, resumed, terr, nbr_distractors, dsrest>>

\* lines 231-241: the next data loader of the epoch
SlotBegin ==
  /\ tpc = "slot"
  /\ it_dataset < Len(datasets)
  /\ LET m == datasets[it_dataset + 1]
         end_of_epoch_dataset == (it_dataset = Len(datasets) - 1)
     IN /\ mode' = m
        /\ streams' = Updates(streams, <<
             <<(<<"current_dataset", "ref">>), m>>,
             <<Sig("mode"), m>>,
             <<Sig("end_of_epoch_dataset"), end_of_epoch_dataset>> >>)
        /\ nbr_experience_repetition' =
             IF config.nbr_experience_repetition # 0 /\ m = "train"
               THEN config.nbr_experience_repetition ELSE 1
  /\ idx_stimulus' = 0
  /\ tpc' = "batch"
  /\ UNCHANGED <<setup, nbr_epoch, init_epoch, epoch, it_dataset, it_rep, idx_round, counters, window,
                 acc, serving, checkpoint, saves, resumed, terr, nbr_distractors, dsrest>>

\* save_signals: the signals namespace is written to the save path
SaveSignals(reg) == Some(GetOr(reg, <<"signals">>, NoLeaves))

\* every epoch is saved when an interval is given
SaveDueEveryEpoch(e) == save_epoch_interval # 0

\* "epoch % self.save_epoch_interval == 0" with an interval given
SaveDue(e) == save_epoch_interval # 0 /\ e % save_epoch_interval = 0

\* lines 388-390: the data loaders of the epoch are done, the epoch is saved
EpochEnd ==
  /\ tpc = "slot"
  /\ it_dataset >= Len(datasets)
  /\ IF SaveDue(epoch)
       THEN /\ checkpoint' = SaveSignals(streams)
            /\ saves' = saves \cup {epoch}
       ELSE UNCHANGED <<checkpoint, saves>>
  /\ epoch' = epoch + 1
  /\ tpc' = "epoch"
  /\ UNCHANGED <<setup, streams, nbr_epoch, init_epoch, it_dataset, mode, nbr_experience_repetition,
                 idx_stimulus, it_rep, idx_round, counters, window, acc, serving,
                 resumed, terr, nbr_distractors, dsrest>>

\* lines 243-255: the next batch of the data loader
BatchBegin ==
  /\ tpc = "batch"
  /\ idx_stimulus < loader_len[SlotMode]
  /\ LET end_of_dataset == (idx_stimulus = loader_len[SlotMode] - 1)
         ids == [it_datasamples EXCEPT ![mode] = @ + 1]
     IN /\ it_datasamples' = ids
        /\ streams' = Updates(streams, <<
             <<Sig("end_of_dataset"), end_of_dataset>>,
             <<Sig("it_datasamples"), ids>>,
             <<Sig("global_it_datasample"), ids[mode]>>,
             <<Sig("it_datasample"), idx_stimulus>> >>)
  /\ it_rep' = 0
  /\ tpc' = "rep"
  /\ UNCHANGED <<setup, nbr_epoch, init_epoch, epoch, it_dataset, mode, nbr_experience_repetition,
                 idx_stimulus, idx_round, it_samples, it_steps, window, acc, serving,
                 checkpoint, saves, resumed, terr, nbr_distractors, dsrest>>

\* lines 382-383: the data loader is exhausted
SlotEnd ==
  /\ tpc = "batch"
  /\ idx_stimulus >= loader_len[SlotMode]
  /\ it_dataset' = it_dataset + 1
  /\ tpc' = "slot"
  /\ UNCHANGED <<setup, streams, nbr_epoch, init_epoch, epoch, mode, nbr_experience_repetition,
                 idx_stimulus, it_rep, idx_round, counters, window, acc, serving,
                 checkpoint, saves, resumed, terr, nbr_distractors, dsrest>>

\* lines 261-268: the next repetition of the batch
RepBegin ==
  /\ tpc = "rep"
  /\ it_rep < nbr_experience_repetition
  /\ LET end_of_repetition_sequence == (it_rep = nbr_experience_repetition - 1)
         iss == [it_samples EXCEPT ![mode] = @ + 1]
     IN /\ it_samples' = iss
        /\ streams' = Updates(streams, <<
             <<Sig("it_samples"), iss>>,
             <<Sig("global_it_sample"), iss[mode]>>,
             <<Sig("it_sample"), it_rep>>,
             <<Sig("end_of_repetition_sequence"), end_of_repetition_sequence>> >>)
  /\ idx_round' = -1
  /\ served' = [q \in DOMAIN served |-> 0]
  /\ tpc' = "round"
  /\ UNCHANGED <<setup, nbr_epoch, init_epoch, epoch, it_dataset, mode, nbr_experience_repetition,
                 idx_stimulus, it_rep, it_datasamples, it_steps, window, acc, pipe_pos,
                 mod_pos, computes, listener_input, serve_start, invoked, checkpoint,
                 saves, resumed, terr, nbr_distractors, dsrest>>

\* the filter lets every id through, as '"" in pipe_id' would
IsGamePipelineAny(id) == TRUE

\* '"referential_game" in pipe_id'
IsGamePipeline(id) == id \in {"referential_game"}

\* the next pipeline of self.pipelines.items() after position q that the
\* filter of the loop lets through, 0 when the loop is over
NextPipe(game, q) ==
  LET c == {r \in DOMAIN Pipelines : r > q /\ IsGamePipeline(Pipelines[r].id) = game}
  IN IF c = {} THEN 0 ELSE CHOOSE r \in c : \A r2 \in c : r <= r2

\* the modules are run last first
ServeOrderReversed(pl) == [k \in DOMAIN pl.modules |-> pl.modules[Len(pl.modules) + 1 - k]]

\* serve(pipeline) runs the modules of the pipeline in the declared order
ServeOrder(pl) == pl.modules

\* the loop over the pipelines goes on to pipeline q, or is over (q = 0)
ServeLoop(game, q) ==
  /\ pipe_pos' = q
  /\ mod_pos' = 1
  /\ invoked' = <<>>
  /\ tpc' = IF q # 0 THEN "serve" ELSE IF game THEN "round" ELSE "rep_end"

\* the flag is raised on the first round
EndOfCommunicationFirst(r) == (r = 0)

\* "end_of_communication = (idx_round==self.config['nbr_communication_round']-1)"
EndOfCommunication(r) == (r = config.nbr_communication_round - 1)

\* lines 271-290: the next communication round; its pipelines are served
RoundBegin ==
  /\ tpc = "round"
  /\ idx_round + 1 < config.nbr_communication_round
  /\ LET r == idx_round + 1
         ist == [it_steps EXCEPT ![mode] = @ + 1]
         end_of_communication == EndOfCommunication(r)
     IN /\ idx_round' = r
        /\ it_steps' = ist
        /\ streams' = Updates(streams, <<
             <<Sig("it_steps"), ist>>,
             <<Sig("global_it_step"), ist[mode]>>,
             <<Sig("it_step"), r>>,
             <<Sig("end_of_communication"), end_of_communication>>,
             <<Sig("multi_round"), ~end_of_communication>>,
             <<(<<"current_dataloader", "sample">>), <<SlotMode, idx_stimulus>> >> >>)
  /\ ServeLoop(TRUE, NextPipe(TRUE, 0))
  /\ serve_start' = computes
  /\ UNCHANGED <<setup, nbr_epoch, init_epoch, epoch, it_dataset, mode, nbr_experience_repetition,
                 idx_stimulus, it_rep, it_datasamples, it_samples, window, acc, computes,
                 listener_input, served, checkpoint, saves, resumed, terr,
                 nbr_distractors, dsrest>>

\* lines 296-298: the rounds are over, the other pipelines are served
RoundsDone ==
  /\ tpc = "round"
  /\ idx_round + 1 >= config.nbr_communication_round
  /\ ServeLoop(FALSE, NextPipe(FALSE, 0))
  /\ serve_start' = computes
  /\ UNCHANGED <<setup, streams, nbr_epoch, init_epoch, loopvars, counters, window, acc, computes,
                 listener_input, served, checkpoint, saves, resumed, terr,
                 nbr_distractors, dsrest>>

\* the inputs serve resolves for a module: the registry is read when the
\* module is about to run
ModuleInputs(reg, m) ==
  IF m = "listener"
    THEN [features |-> Get(reg, <<"modules", "speaker", "features">>),
          end_of_communication |-> GetOr(reg, Sig("end_of_communication"), FALSE)]
    ELSE [features |-> None, end_of_communication |-> FALSE]

\* the registry after module m computed: the speaker's output is written
\* under modules:speaker:features; at the end of the communication the
\* listener puts its loss, and the accuracy a when it has one (a = 0: none),
\* in the dicts of the registry
ModuleOutputs(reg, m, in, token, a) ==
  IF m = "speaker" THEN Update(reg, <<"modules", "speaker", "features">>, token)
  ELSE IF m = "listener" /\ in.end_of_communication
    THEN LET r1 == DictAssign(reg, "losses_dict", "referential_game_loss", <<token>>)
         IN IF a = 0 THEN r1
            ELSE DictAssign(r1, "logs_dict", "referential_game_accuracy", a)
  ELSE reg

\* the exception is swallowed and the repetition ended
RaisedInServeSwallowed == "rep_end"

\* lines 288-298: the serve calls are in no try: an exception raised under
\* them leaves train
RaisedInServe == "error"

\* one module of the pipeline being served computes; its exception, if it
\* raises, ends train
ServeModule ==
  /\ tpc = "serve"
  /\ LET pl == Pipelines[pipe_pos]
         m == ServeOrder(pl)[mod_pos]
         game == IsGamePipeline(pl.id)
         in == ModuleInputs(streams, m)
     IN /\ computes' = computes + 1
        /\ invoked' = IF mod_pos = 1 THEN <<m>> ELSE Append(invoked, m)
        /\ listener_input' = IF m = "listener" THEN in.features ELSE listener_input
        /\ \/ /\ tpc' = RaisedInServe
              /\ terr' = "compute"
              /\ UNCHANGED <<streams, pipe_pos, mod_pos, served, serve_start>>
           \/ /\ \E a \in IF m = "listener" /\ in.end_of_communication
                            THEN Accuracies \cup {0} ELSE {0} :
                    streams' = ModuleOutputs(streams, m, in, computes', a)
              /\ IF mod_pos < Len(pl.modules)
                   THEN /\ mod_pos' = mod_pos + 1
                        /\ UNCHANGED <<tpc, pipe_pos, served, serve_start>>
                   ELSE /\ served' = [served EXCEPT ![pipe_pos] = @ + 1]
                        /\ pipe_pos' = NextPipe(game, pipe_pos)
                        /\ mod_pos' = 1
                        /\ serve_start' = computes'
                        /\ tpc' = IF pipe_pos' # 0 THEN "serve"
                                  ELSE IF game THEN "round" ELSE "rep_end"
              /\ UNCHANGED terr
  /\ UNCHANGED <<setup, nbr_epoch, init_epoch, loopvars, counters, window, acc, checkpoint, saves,
                 resumed, nbr_distractors, dsrest>>

\* "acc = logs_dict[acc_keys[-1]].mean()" when an accuracy was logged
LoggedAcc(reg, old) ==
  LET logs_dict == GetOr(reg, <<"logs_dict">>, NoLeaves)
  IN IF <<"referential_game_accuracy">> \in DOMAIN logs_dict
       THEN Some(logs_dict[<<"referential_game_accuracy">>]) ELSE old

\* a run of reset calls, in order
RECURSIVE Resets(_, _)
Resets(reg, ts) ==
  IF ts = <<>> THEN reg ELSE Resets(Reset(reg, Head(ts)), Tail(ts))

\* only the losses are reset
RepEndResetsLossesOnly == <<"losses_dict">>

\* lines 312-313: the namespaces train resets when a repetition ends
RepEndResets == <<"losses_dict", "logs_dict">>

\* lines 301-336: the repetition ends: the accuracy is read, the dicts are
\* reset, the curriculum count is written and logged
RepEnd ==
  /\ tpc = "rep_end"
  /\ acc' = LoggedAcc(streams, acc)
  /\ LET r1 == Resets(streams, RepEndResets)
     IN IF UseCurriculum
          THEN /\ streams' = Update(r1, Sig("curriculum_nbr_distractors"),
                                    nbr_distractors[mode])
               /\ IF logger
                    THEN /\ it_rep' = it_rep + 1
                         /\ tpc' = "rep"
                         /\ UNCHANGED terr
                    ELSE /\ tpc' = "error"
                         /\ terr' = "AttributeError"
                         /\ UNCHANGED it_rep
          ELSE /\ streams' = r1
               /\ it_rep' = it_rep + 1
               /\ tpc' = "rep"
               /\ UNCHANGED terr
  /\ UNCHANGED <<setup, nbr_epoch, init_epoch, epoch, it_dataset, mode, nbr_experience_repetition,
                 idx_stimulus, idx_round, counters, window, serving, checkpoint, saves,
                 resumed, nbr_distractors, dsrest>>

\* "windowed_accuracy > 75 and window_count > window size and
\* nbr_distractors < config['nbr_distractors'][mode]", the window holding
\* total / count
CurriculumStep(total, count, nbr) ==
  /\ total > AccThreshold * count
  /\ count > config.curriculum_distractors_window_size
  /\ nbr < config.nbr_distractors[mode]

\* lines 368-379: the repetitions of the batch are over; in a train mode the
\* curriculum takes the accuracy into its window and may raise the count of
\* every dataset, the loop of which leaves mode at the last key
BatchEnd ==
  /\ tpc = "rep"
  /\ it_rep >= nbr_experience_repetition
  /\ IF mode = "train" /\ UseCurriculum
       THEN IF ~acc.given
              THEN /\ tpc' = "error"
                   /\ terr' = "UnboundLocalError"
                   /\ UNCHANGED <<window, nbr_distractors, mode, idx_stimulus>>
              ELSE LET total == windowed_total + acc.v
                       count == window_count + 1
                   IN /\ IF CurriculumStep(total, count, nbr_distractors[mode])
                           THEN /\ windowed_total' = 0
                                /\ window_count' = 0
                                /\ nbr_distractors' =
                                     [m \in DOMAIN nbr_distractors |->
                                        IF m \in Range(datasets)
                                          THEN nbr_distractors[m] + 1
                                          ELSE nbr_distractors[m]]
                                /\ mode' = datasets[Len(datasets)]
                           ELSE /\ windowed_total' = total
                                /\ window_count' = count
                                /\ UNCHANGED <<nbr_distractors, mode>>
                      /\ idx_stimulus' = idx_stimulus + 1
                      /\ tpc' = "batch"
                      /\ UNCHANGED terr
       ELSE /\ idx_stimulus' = idx_stimulus + 1
            /\ tpc' = "batch"
            /\ UNCHANGED <<window, nbr_distractors, mode, terr>>
  /\ UNCHANGED <<setup, streams, nbr_epoch, init_epoch, epoch, it_dataset, nbr_experience_repetition,
                 it_rep, idx_round, counters, acc, serving, checkpoint, saves, resumed,
                 dsrest>>

\* the program is run again with load_path at the save path: __init__ builds
\* the registry anew and loads the signals that were saved
Restart ==
  /\ tpc \in {"done", "error"}
  /\ ~resumed
  /\ resumed' = TRUE
  /\ streams' = Construct(config, checkpoint, TRUE)
  /\ nbr_distractors' = config.nbr_distractors
  /\ tpc' = "init"
  /\ nbr_epoch' = 0
  /\ init_epoch' = 0
  /\ epoch' = 0
  /\ it_dataset' = 0
  /\ mode' = ""
  /\ nbr_experience_repetition' = 1
  /\ idx_stimulus' = 0
  /\ it_rep' = 0
  /\ idx_round' = -1
  /\ it_datasamples' = NoCount
  /\ it_samples' = NoCount
  /\ it_steps' = NoCount
  /\ windowed_total' = 0
  /\ window_count' = 0
  /\ acc' = None
  /\ pipe_pos' = 0
  /\ mod_pos' = 0
  /\ computes' = 0
  /\ listener_input' = None
  /\ serve_start' = 0
  /\ served' = [q \in 1..Len(Pipelines) |-> 0]
  /\ invoked' = <<>>
  /\ terr' = ""
  /\ UNCHANGED <<setup, checkpoint, saves, dsrest>>

TrainNext ==
  \/ \E n \in {1, MaxEpochs} : TrainBegin(n)
  \/ EpochBegin
  \/ TrainReturn
  \/ SlotBegin
  \/ EpochEnd
  \/ BatchBegin
  \/ SlotEnd
  \/ RepBegin
  \/ BatchEnd
  \/ RoundBegin
  \/ RoundsDone
  \/ ServeModule
  \/ RepEnd
  \/ Restart

\* the orchestrator as constructed, beside a dataset that is left alone
InitTrain == DatasetIdle /\ TrainInit

SpecTrain == InitTrain /\ [][TrainNext]_vars

\* the orchestrator is not running while the selector is exercised
TrainIdle ==
  /\ config = Config(0, 1, FALSE, 0, nbr_distractors)
  /\ datasets = <<"train", "test">>
  /\ loader_len = [m \in Parts |-> 1]
  /\ logger = FALSE
  /\ save_epoch_interval = 0
  /\ streams = EmptyRegistry
  /\ tpc = "idle"
  /\ nbr_epoch = 0
  /\ epoch = 0
  /\ it_dataset = 0
  /\ mode = ""
  /\ nbr_experience_repetition = 1
  /\ idx_stimulus = 0
  /\ it_rep = 0
  /\ idx_round = -1
  /\ it_datasamples = NoCount
  /\ it_samples = NoCount
  /\ it_steps = NoCount
  /\ windowed_total = 0
  /\ window_count = 0
  /\ acc = None
  /\ pipe_pos = 0
  /\ mod_pos = 0
  /\ computes = 0
  /\ listener_input = None
  /\ serve_start = 0
  /\ served = [q \in 1..Len(Pipelines) |-> 0]
  /\ invoked = <<>>
  /\ checkpoint = None
  /\ saves = {}
  /\ resumed = FALSE
  /\ terr = ""
  /\ reg_call = NoCall
  /\ init_epoch = 0
  /\ NotPersisting
  /\ NotBuilt

SelectorNext ==
  \/ SampleCall /\ UNCHANGED trvars
  \/ SelectPass /\ UNCHANGED trvars
  \/ Debugger /\ UNCHANGED trvars
  \/ Draw /\ UNCHANGED trvars
  \/ Fetch /\ UNCHANGED trvars

\* the dataset as constructed, beside an orchestrator that is not run
InitDataset == DatasetInit /\ TrainIdle

SpecDataset == InitDataset /\ [][SelectorNext]_vars

(***************************************************************************)
(* Properties of DualLabeledDataset, checked under SpecDataset.            *)
(***************************************************************************)
\* the indices of the classes the caller restricts the call to (all the
\* classes of the active map when from_class is None), minus excepts
CallerSet ==
  WorkingSet(ActiveClasses, CandidateClasses(ActiveClasses, from_class, FALSE).v, excepts)

\* the indices of all the classes of the active map, minus excepts
WidenedSet == WorkingSet(ActiveClasses, DOMAIN ActiveClasses, excepts)

\* from_class names classes of the active map only
KnownClasses == CandidateClasses(ActiveClasses, from_class, FALSE).v \subseteq DOMAIN ActiveClasses

Distinct(l) == \A a, b \in DOMAIN l : a # b => l[a] # l[b]

NoneExcepted(l) == excepts.given => Range(l) \cap excepts.v = {}

\* C1: a call whose candidate indices, minus excepts and minus the target,
\* number at least nbr_distractors[mode] returns 1 + nbr_distractors[mode]
\* indices, the target first, pairwise distinct, none of them in excepts.
C1_Claim ==
  (pc = "returned" /\ Cardinality(CallerSet \ {idx}) >= nbr_distractors[self_mode])
    => /\ Len(indices) = 1 + nbr_distractors[self_mode]
       /\ indices[1] = idx
       /\ Distinct(indices)
       /\ NoneExcepted(indices)

\* the call restricts the classes, the restriction leaves fewer indices than
\* the count, and all the classes of the active map leave enough
SparseCall ==
  /\ pc # "idle"
  /\ from_class.given
  /\ KnownClasses
  /\ Cardinality(CallerSet \ {idx}) < nbr_distractors[self_mode]
  /\ Cardinality(WidenedSet \ {idx}) >= nbr_distractors[self_mode]

\* the selection is over: the index list is the one the call fetches
Selected == pc \in {"fetch", "returned"} \/ (pc = "error" /\ err \notin {"KeyError", "debugger"})

\* what a widened call selects
WidenedSelection ==
  /\ not_enough_elements
  /\ Len(indices) = 1 + nbr_distractors[self_mode]
  /\ indices[1] = idx
  /\ Distinct(indices)
  /\ Range(Tail(indices)) \subseteq WidenedSet \ {idx}

\* C2 as stated: whenever from_class leaves fewer indices than the count and
\* all the classes are enough, the call does not fail in the selection: it
\* widens and selects 1 + nbr_distractors[mode] distinct indices, the target
\* first, the distractors from the widened set.
C2_Claim ==
  SparseCall => /\ err \notin {"KeyError", "debugger"}
                /\ Selected => WidenedSelection

\* C2, amended: the same for a target that is in one of the from_class
\* classes and not in excepts; the selection then takes two passes and never
\* reaches the debugger, and only the fetch of the items can still fail.
C2_Amended ==
  (SparseCall /\ idx \in CallerSet)
    => /\ pc # "debugger"
       /\ err \notin {"KeyError", "debugger"}
       /\ passes <= 2
       /\ pc \in {"draw", "fetch", "returned", "error"} => not_enough_elements
       /\ Selected => WidenedSelection

C2_Witness ==
  /\ SparseCall
  /\ idx \in CallerSet
  /\ pc = "returned"
  /\ nbr_distractors[self_mode] = 2
  /\ passes = 2

\* item k of the sample the call returned
ItemPayload(k) == payload[OwnerOf(indices[k])]

\* C7: in a returned sample, every item whose dataset item supplies a label
\* and no latent of its own has as its exp_latents entry the one-hot vector
\* of its label over the known classes; and when no item supplies a
\* real-valued latent, exp_latents_values equals exp_latents item for item.
C7_Claim ==
  pc = "returned" =>
    /\ \A k \in 1..fetched :
         (ItemPayload(k).labels /\ ~ItemPayload(k).latents)
           => /\ k \in DOMAIN sample_d.exp_latents
              /\ sample_d.exp_latents[k] = OneHot(nbr_classes, LabelOf(indices[k]))
    /\ (\A k \in 1..fetched : ~ItemPayload(k).values)
         => sample_d.exp_latents_values = sample_d.exp_latents

\* the train indices, and the indices the test partition contributes
TrainIndices == 0..(Len(train_labels) - 1)
TestIndices == {Len(train_labels) + k : k \in 0..(Len(test_labels) - 1)}

\* C8: every class of the train partition is in the test-mode map with all
\* its train indices; the index of test item k is k plus the size of the
\* train partition, filed under the class of the item, so that train and test
\* indices are disjoint; a class of the test partition only has no entry in
\* the train-mode map.
C8_Construction ==
  /\ \A c \in DOMAIN train_classes :
       /\ c \in DOMAIN test_classes
       /\ Range(train_classes[c]) \subseteq Range(test_classes[c])
  /\ \A k \in 0..(Len(test_labels) - 1) :
       Len(train_labels) + k \in Range(test_classes[test_labels[k + 1]])
  /\ UNION {Range(train_classes[c]) : c \in DOMAIN train_classes} = TrainIndices
  /\ UNION {Range(test_classes[c]) : c \in DOMAIN test_classes} = TrainIndices \cup TestIndices
  /\ \A c \in DOMAIN test_classes :
       \A i \in Range(test_classes[c]) : LabelOf(i) = c
  /\ \A c \in Range(test_labels) \ Range(train_labels) : c \notin DOMAIN train_classes

C8_Witness ==
  /\ pc = "returned"
  /\ Range(test_labels) \ Range(train_labels) # {}
  /\ Range(test_labels) \cap Range(train_labels) # {}

\* C13: when the target is not in the working set (the removal of line 104
\* raises), the call ends in a fatal error: it draws no distractor and
\* returns no sample.
C13_Claim == [][pc = "debugger" => pc' = "error"]_vars

\* the turns of the fetch loop whose item has no "exp_labels"
Unlabelled == {k \in 1..fetched : ~payload[OwnerOf(indices[k])].labels}

\* C20: a call that fetched an item without the label field fails with the
\* assertion of line 148 and returns no sample; a call whose fetched items
\* all carry a label never fails with it.
C20_LabelMandatory ==
  pc \in {"returned", "error"}
    => /\ Unlabelled # {} => (pc = "error" /\ err = "AssertionError")
       /\ err = "AssertionError" => Unlabelled # {}

C20_Witness ==
  /\ pc = "error"
  /\ err = "AssertionError"
  /\ fetched = 2
  /\ Unlabelled = {2}
  /\ Len(indices) = 3

\* C21: a call with target_only returns the target alone: every payload
\* sequence holds one item, the target's, and "indices" holds the target
\* index only.
C21_Claim ==
  (pc = "returned" /\ target_only)
    => /\ Len(sample_d.experiences) = 1
       /\ sample_d.experiences[1] = [part |-> OwnerOf(idx), item |-> LocalIndex(idx)]
       /\ Len(sample_d.exp_labels) = 1
       /\ Len(sample_d.exp_latents) = 1
       /\ Len(sample_d.exp_latents_values) = 1
       /\ indices = <<idx>>

\* all the classes of the active map, minus excepts and the target, hold
\* enough indices for the call being made
GloballySufficient ==
  pc # "idle" /\ Cardinality(WidenedSet \ {idx}) >= nbr_distractors[self_mode]

GloballySparse ==
  pc # "idle" /\ Cardinality(WidenedSet \ {idx}) < nbr_distractors[self_mode]

\* C23: under global sparsity the call never leaves the selection loop: it
\* draws nothing, returns nothing and raises no sparsity error; from the
\* second pass on every pass works on the same set, all the classes minus
\* excepts and the target.
C23_NeverReturnsWhenSparse ==
  GloballySparse
    => /\ pc \in {"select", "debugger", "error"}
       /\ err \in {"", "KeyError", "debugger"}
       /\ (pc = "select" /\ passes >= 2)
            => /\ not_enough_elements
               /\ set_indices = WidenedSet \ {idx}
               /\ indices = <<idx>>

C23_Witness ==
  /\ GloballySparse
  /\ pc = "select"
  /\ passes = MaxPasses
  /\ nbr_distractors[self_mode] = 2
  /\ Cardinality(set_indices) = 1
  /\ idx \in WidenedSet

\* item k of the returned sample was fetched from partition q at index j
FetchedFrom(k, q, j) == sample_d.experiences[k] = [part |-> q, item |-> j]

Rounds == config.nbr_communication_round

\* the pipelines that play the game, and the others
GamePipes == {q \in DOMAIN Pipelines : Pipelines[q].id = "referential_game"}

OtherPipes == DOMAIN Pipelines \ GamePipes

\* C3: with the curriculum on, from the value set at the start of train on,
\* the distractor count of every mode never decreases and never exceeds
\* config['nbr_distractors'] of that mode.
C3_Claim ==
  [][(UseCurriculum /\ tpc' \notin {"init", "idle"})
       => \A m \in Range(datasets) :
            /\ nbr_distractors'[m] <= config.nbr_distractors[m]
            /\ tpc # "init" => nbr_distractors'[m] >= nbr_distractors[m]]_vars

\* C4: serve runs the modules of the pipeline one at a time in the declared
\* order, and the listener, which declares the speaker's output as its input,
\* is given what the speaker wrote in this serve, not what an earlier serve
\* left.
C4_ServeInOrder ==
  [][tpc = "serve"
       => /\ invoked' = SubSeq(Pipelines[pipe_pos].modules, 1, mod_pos)
          /\ invoked'[mod_pos] = "listener"
               => /\ listener_input'.given
                  /\ listener_input'.v > serve_start
                  /\ listener_input'.v <= computes]_vars

C4_Witness ==
  /\ tpc = "round"
  /\ Rounds = 2
  /\ idx_round = 1
  /\ invoked = <<"speaker", "listener">>
  /\ listener_input = Some(computes - 1)
  /\ \A q \in GamePipes : served[q] = 2

\* C5: in every repetition a pipeline with "referential_game" in its id is
\* served once per communication round, every other pipeline once, and the
\* other pipelines only after the last round.
C5_ServeCounts ==
  /\ tpc \in {"round", "serve"} =>
       \A q \in GamePipes : served[q] \in {idx_round, idx_round + 1}
  /\ tpc \in {"round", "serve", "rep_end"} =>
       \A q \in OtherPipes :
         (served[q] > 0 \/ (tpc = "serve" /\ pipe_pos = q))
           => /\ idx_round = Rounds - 1
              /\ \A g \in GamePipes : served[g] = Rounds
  /\ tpc = "rep_end" =>
       /\ \A q \in GamePipes : served[q] = Rounds
       /\ \A q \in OtherPipes : served[q] = 1

C5_Witness ==
  /\ tpc = "rep_end"
  /\ Rounds = 2
  /\ it_rep = 1
  /\ GamePipes # {}
  /\ OtherPipes # {}

\* C6: whenever a pipeline is being served, signals:epoch, mode,
\* it_datasample, it_sample and it_step are the epoch, the mode of the data
\* loader, the batch, the repetition and the last round begun, and the
\* end_of_ flags are true exactly on the last data loader, batch, repetition
\* and round.
C6_SignalsAtServe ==
  tpc = "serve" =>
    /\ Get(streams, Sig("epoch")) = Some(epoch)
    /\ Get(streams, Sig("mode")) = Some(SlotMode)
    /\ Get(streams, Sig("it_datasample")) = Some(idx_stimulus)
    /\ Get(streams, Sig("it_sample")) = Some(it_rep)
    /\ Get(streams, Sig("it_step")) = Some(idx_round)
    /\ Get(streams, Sig("end_of_epoch_dataset")) = Some(it_dataset = Len(datasets) - 1)
    /\ Get(streams, Sig("end_of_dataset")) = Some(idx_stimulus = loader_len[SlotMode] - 1)
    /\ Get(streams, Sig("end_of_repetition_sequence"))
         = Some(it_rep = nbr_experience_repetition - 1)
    /\ Get(streams, Sig("end_of_communication")) = Some(idx_round = Rounds - 1)

C6_Witness ==
  /\ tpc = "serve"
  /\ pipe_pos \in GamePipes
  /\ epoch = 1
  /\ it_dataset = 1
  /\ idx_round = 0
  /\ Rounds = 2
  /\ resumed

\* the signals train reads at its start
StartSignals == {"it_datasamples", "it_samples", "it_steps", "curriculum_nbr_distractors",
                 "epoch"}

\* C9: on a fresh run the signals train reads at its start are absent, the
\* reads do not raise, and train starts from zero counters, one distractor
\* and epoch 0.
C9_FreshStart ==
  [][(tpc = "init" /\ ~resumed /\ tpc' # "init")
       => /\ \A k \in StartSignals : ~Get(streams, Sig(k)).given
          /\ tpc' = "epoch"
          /\ \A m \in Range(datasets) :
               /\ it_datasamples'[m] = 0
               /\ it_samples'[m] = 0
               /\ it_steps'[m] = 0
               /\ UseCurriculum => nbr_distractors'[m] = 1
          /\ epoch' = 0]_vars

C9_Witness ==
  /\ tpc = "epoch"
  /\ ~resumed
  /\ epoch = 0
  /\ UseCurriculum
  /\ \A m \in Range(datasets) : nbr_distractors[m] = 1 /\ it_steps[m] = 0
  /\ \E m \in Range(datasets) : config.nbr_distractors[m] = 2

\* the entries of the signals that the end of a repetition does not write
KeptSignals(reg) == Below(reg, <<"signals">>) \ {Sig("curriculum_nbr_distractors")}

\* C11: when a repetition ends, train resets losses_dict and logs_dict: both
\* read as an empty mapping right after, and every entry of the signals
\* that was there is still there with its value.
C11_ResetEachRepetition ==
  [][tpc = "rep_end"
       => /\ \A top \in {"losses_dict", "logs_dict"} :
               /\ Get(streams', <<top>>).given
               /\ DOMAIN Get(streams', <<top>>).v = {}
          /\ \A p \in KeptSignals(streams) :
               /\ p \in DOMAIN streams'.leaves
               /\ streams'.leaves[p] = streams.leaves[p]]_vars

C11_Witness ==
  /\ tpc = "rep"
  /\ it_rep = 2
  /\ acc.given
  /\ DOMAIN Get(streams, <<"losses_dict">>).v = {}
  /\ DOMAIN Get(streams, <<"logs_dict">>).v = {}
  /\ Get(streams, Sig("it_sample")).given
  /\ Get(streams, Sig("it_sample")).v = 1

\* the last repetition of a batch is over
AtBatchEnd == tpc = "rep" /\ it_rep >= nbr_experience_repetition

\* every dataset has one distractor more
AllRaised == \A m \in Range(datasets) : nbr_distractors'[m] = nbr_distractors[m] + 1

\* C12: with the curriculum on, at the end of a batch of the train data
\* loader: if the windowed accuracy, this batch included, exceeds the
\* threshold, the window holds at least
\* config['curriculum_distractors_window_size'] iterations and the count is
\* below the configured maximum, the count of every dataset is raised by one
\* and the window is emptied; otherwise no count changes.
C12_Claim ==
  [][(AtBatchEnd /\ UseCurriculum /\ SlotMode = "train")
       => LET total == windowed_total + acc.v
              count == window_count + 1
          IN IF /\ acc.given
                /\ total > AccThreshold * count
                /\ count >= config.curriculum_distractors_window_size
                /\ nbr_distractors["train"] < config.nbr_distractors["train"]
               THEN AllRaised /\ windowed_total' = 0 /\ window_count' = 0
               ELSE nbr_distractors' = nbr_distractors]_vars

\* the same with the comparison of line 375: more iterations than the size
C12_StrictWindow ==
  [][(AtBatchEnd /\ UseCurriculum /\ SlotMode = "train")
       => LET total == windowed_total + acc.v
              count == window_count + 1
          IN IF /\ acc.given
                /\ total > AccThreshold * count
                /\ count > config.curriculum_distractors_window_size
                /\ nbr_distractors["train"] < config.nbr_distractors["train"]
               THEN AllRaised /\ windowed_total' = 0 /\ window_count' = 0
               ELSE nbr_distractors' = nbr_distractors]_vars

\* the epochs train has completed in this run or in the run it resumes
EpochsDone == IF tpc \in {"init", "idle"} THEN {} ELSE 0..(epoch - 1)

\* C14: with save_epoch_interval = k, train saves after every epoch whose
\* number is a multiple of k and at no other point: a save is made only
\* when every data loader of the epoch is exhausted, never inside a batch, a
\* repetition or a round; without save_epoch_interval train never saves.
C14_SaveAtEpochBoundary ==
  [][/\ saves' # saves
          => /\ tpc = "slot"
             /\ it_dataset = Len(datasets)
             /\ save_epoch_interval > 0
             /\ epoch % save_epoch_interval = 0
             /\ saves' = saves \cup {epoch}
             /\ epoch' = epoch + 1
     /\ save_epoch_interval > 0
          => \A e \in EpochsDone' : e % save_epoch_interval = 0 => e \in saves'
     /\ save_epoch_interval = 0 => saves' = {}]_vars

C14_Witness ==
  /\ tpc = "done"
  /\ ~resumed
  /\ save_epoch_interval = 2
  /\ epoch = 2
  /\ saves = {0}

\* what the checkpoint holds under a key of the signals
HasPersisted(k) == checkpoint.given /\ <<k>> \in DOMAIN checkpoint.v
Persisted(k) == checkpoint.v[<<k>>]

\* C15: train on an orchestrator that loaded the signals of a checkpoint
\* starts its epoch loop at the persisted signals:epoch, continues
\* it_datasamples, it_samples and it_steps from their persisted values and,
\* with the curriculum on, sets the distractor count of every mode to the
\* persisted signals:curriculum_nbr_distractors.
C15_ResumeFromSignals ==
  [][(tpc = "init" /\ resumed /\ checkpoint.given /\ tpc' # "init")
       => /\ HasPersisted("epoch") /\ epoch' = Persisted("epoch")
          /\ HasPersisted("it_datasamples")
          /\ it_datasamples' = Persisted("it_datasamples")
          /\ HasPersisted("it_samples") /\ it_samples' = Persisted("it_samples")
          /\ HasPersisted("it_steps") /\ it_steps' = Persisted("it_steps")
          /\ UseCurriculum
               => /\ HasPersisted("curriculum_nbr_distractors")
                  /\ \A m \in Range(datasets) :
                       nbr_distractors'[m] = Persisted("curriculum_nbr_distractors")]_vars

C15_Witness ==
  /\ tpc = "epoch"
  /\ resumed
  /\ mode = ""
  /\ HasPersisted("epoch")
  /\ epoch = 1
  /\ it_steps["train"] = 4
  /\ UseCurriculum
  /\ \A m \in Range(datasets) : nbr_distractors[m] = 3

\* C17: an exception raised by a module's compute during a serve leaves
\* train: the serve stops at the failing module, which is not run again, no
\* other module or pipeline is served, losses_dict and logs_dict keep what
\* they hold and no checkpoint is written after it.
C17_ComputeFailurePropagates ==
  [][/\ terr' = "compute" => tpc' = "error"
     /\ (tpc = "serve" /\ terr' = "compute")
          => /\ \A top \in {"losses_dict", "logs_dict"} :
                  Below(streams', <<top>>) = Below(streams, <<top>>)
             /\ computes' = computes + 1
             /\ served' = served
             /\ saves' = saves
     /\ (tpc = "error" /\ terr = "compute")
          => /\ tpc' = "init"
             /\ resumed'
             /\ computes' = 0
             /\ saves' = saves]_vars

C17_Witness ==
  /\ tpc = "error"
  /\ terr = "compute"
  /\ invoked = <<"metric">>
  /\ Below(streams, <<"losses_dict">>) # {}
  /\ epoch = 1
  /\ saves = {0}

\* C18: unless a module's compute fails, train ends only by returning, never
\* in the middle of an epoch: it returns after the last of the epochs
\* init_epoch .. nbr_epoch-1, and when init_epoch >= nbr_epoch it returns
\* without a single compute.
C18_Claim ==
  /\ tpc = "error" => terr = "compute"
  /\ tpc = "done" => /\ epoch = (IF init_epoch >= nbr_epoch THEN init_epoch ELSE nbr_epoch)
                     /\ init_epoch >= nbr_epoch => computes = 0

\* C25: with the curriculum on, the end of every batch of a train data
\* loader updates the window (one iteration more, or emptied with every
\* count raised), also after an increment earlier in the same loader, and
\* the end of a batch of another data loader leaves the window alone.
C25_Claim ==
  [][(AtBatchEnd /\ UseCurriculum /\ tpc' = "batch")
       => IF SlotMode = "train"
            THEN \/ window_count' = window_count + 1
                 \/ window_count' = 0 /\ windowed_total' = 0 /\ AllRaised
            ELSE UNCHANGED <<windowed_total, window_count>>]_vars

CountersOf(m) == <<it_datasamples[m], it_samples[m], it_steps[m]>>

CountedByOne(m) ==
  /\ it_datasamples'[m] - it_datasamples[m] \in {0, 1}
  /\ it_samples'[m] - it_samples[m] \in {0, 1}
  /\ it_steps'[m] - it_steps[m] \in {0, 1}

SignalledMode == Get(streams', Sig("mode")).v

\* what C28 says of one step
CountedInOwnLoader ==
  tpc \in {"batch", "rep", "round"}
       => /\ \A m \in Parts :
               CountersOf(m)' # CountersOf(m) => (SlotMode = m /\ CountedByOne(m))
          /\ it_datasamples' # it_datasamples
               => Get(streams', Sig("global_it_datasample")).v = it_datasamples'[SignalledMode]
          /\ it_samples' # it_samples
               => Get(streams', Sig("global_it_sample")).v = it_samples'[SignalledMode]
          /\ it_steps' # it_steps
               => Get(streams', Sig("global_it_step")).v = it_steps'[SignalledMode]

\* C28: inside train, a step changes the cumulative counters of a mode m
\* only while the data loader of m is gone through, each by one at most,
\* and the global_it_datasample, global_it_sample and global_it_step it
\* writes are the counters of the mode held in signals:mode.
C28_Claim == [][CountedInOwnLoader]_vars

\* the loops of an epoch are being gone through
InEpoch == tpc \notin {"idle", "init", "epoch", "done", "error"}

\* C29: a train call resumed from a checkpoint does not execute again an
\* epoch at whose end a checkpoint was written: the epoch it is in is none
\* of the epochs already saved.
C29_Claim == (resumed /\ InEpoch) => epoch \notin saves

\* the checkpoint written in the step holds n as curriculum_nbr_distractors
SavesCount(n) ==
  /\ checkpoint'.given
  /\ <<"curriculum_nbr_distractors">> \in DOMAIN checkpoint'.v
  /\ checkpoint'.v[<<"curriculum_nbr_distractors">>] = n

\* C30: with the curriculum on, a checkpoint that train writes holds as
\* signals:curriculum_nbr_distractors the distractor count the datasets
\* have when it is written.
C30_Claim ==
  [][(UseCurriculum /\ saves' # saves)
       => \A m \in Range(datasets) : SavesCount(nbr_distractors[m])]_vars

(***************************************************************************)
(* The registry driven directly: any order of register, update, get and    *)
(* reset over a few paths.                                                 *)
(***************************************************************************)
\* longest series written
MaxSeries == 2

\* paths of single values, among them paths train and serve write
LeafPaths == {<<"signals", "epoch">>, <<"current_dataloader", "sample">>,
              <<"modules", "speaker", "features">>, <<"losses_dict", "loss">>,
              <<"logs_dict", "accuracy">>}

LeafValues == {0, 1}

\* mappings written to a section as a whole, as load_signals does
SectionPaths == {<<"signals">>}

SectionValues == {[k \in {<<"epoch">>} |-> 1], [k \in {<<"it_step">>} |-> 0]}

\* update(p, v)
RegUpdate(p, v) ==
  /\ IsSeries(p) /\ p \in DOMAIN streams.leaves => Len(streams.leaves[p]) < MaxSeries
  /\ streams' = Update(streams, p, v)
  /\ reg_call' = [op |-> "update", p |-> p, v |-> v]

\* get(p): the registry is left as it is
RegGet(p) ==
  /\ reg_call' = [op |-> "get", p |-> p, v |-> 0]
  /\ UNCHANGED streams

\* reset(top)
RegReset(top) ==
  /\ streams' = Reset(streams, top)
  /\ reg_call' = [op |-> "reset", p |-> <<top>>, v |-> 0]

\* register(top)
RegRegister(top) ==
  /\ streams' = Register(streams, top)
  /\ reg_call' = [op |-> "register", p |-> <<top>>, v |-> 0]

\* everything but the registry and the call made on it
regrest == <<config, datasets, loader_len, logger, save_epoch_interval, tpc, nbr_epoch,
             init_epoch, persist, metric,
             loopvars, counters, window, acc, serving, checkpoint, saves, resumed, terr,
             dsvars>>

RegistryNext ==
  \/ \E t \in PreRegistered : RegRegister(t) /\ UNCHANGED regrest
  \/ \E p \in LeafPaths, v \in LeafValues : RegUpdate(p, v) /\ UNCHANGED regrest
  \/ \E p \in SectionPaths, v \in SectionValues : RegUpdate(p, v) /\ UNCHANGED regrest
  \/ \E p \in LeafPaths \cup SectionPaths : RegGet(p) /\ UNCHANGED regrest
  \/ \E t \in PreRegistered : RegReset(t) /\ UNCHANGED regrest

\* an empty registry; the dataset and the orchestrator are not run
InitRegistry ==
  /\ DatasetIdle
  /\ nbr_distractors = [m \in Parts |-> 1]
  /\ TrainIdle

SpecRegistry == InitRegistry /\ [][RegistryNext]_vars

\* get(p) right after update(p, v) returns v; a series that holds the values
\* written to it is none of them
ReadsBack(reg, p, v) ==
  IF IsSeries(p) THEN FALSE ELSE Get(reg, p).given /\ Get(reg, p).v = v

\* the writes that accumulate: a value written to a named series of
\* losses_dict or logs_dict, a mapping written to a registered section
Accumulates(p) == IsSeries(p) \/ (Len(p) = 1 /\ p[1] \in PreRegistered)

ModuleItems == <<"speaker", "listener", "metric">>

\* what a checkpoint is made of: config.conf, one file per module,
\* pipelines.pipe and signals.conf
Artifacts == {"config", "pipelines", "signals"} \cup Range(ModuleItems)

persistrest == <<streams, reg_call, config, datasets, loader_len, logger,
                 save_epoch_interval, tpc, nbr_epoch, init_epoch, metric, loopvars,
                 counters, window, acc, serving, saves, resumed, terr, dsvars>>

\* "try: ... except Exception as e: print(...)" around the write or read of
\* artifact a, the operation going on at nxt
Guarded(a, nxt) ==
  /\ IF a \in failing
       THEN reported' = reported \cup {a} /\ UNCHANGED handled
       ELSE handled' = handled \cup {a} /\ UNCHANGED reported
  /\ ppc' = nxt
  /\ UNCHANGED failing

\* lines 74-79: save(path) is called
save ==
  /\ ppc = "idle"
  /\ \E f \in SUBSET Artifacts : failing' = f
  /\ ppc' = "save_config"
  /\ UNCHANGED <<handled, reported, checkpoint, persistrest>>

save_config ==
  /\ ppc = "save_config"
  /\ Guarded("config", "save_modules")
  /\ UNCHANGED <<checkpoint, persistrest>>

\* lines 96-104: the loop over the modules has no try: the exception of the
\* first module that fails leaves the loop, save_modules and save
save_modules ==
  /\ ppc = "save_modules"
  /\ LET bad == {k \in DOMAIN ModuleItems : ModuleItems[k] \in failing}
         first == CHOOSE k \in bad : \A k2 \in bad : k <= k2
     IN IF bad = {}
          THEN /\ handled' = handled \cup Range(ModuleItems)
               /\ ppc' = "save_pipelines"
          ELSE /\ handled' = handled \cup {ModuleItems[k] : k \in 1..(first - 1)}
               /\ ppc' = "error"
  /\ UNCHANGED <<failing, reported, checkpoint, persistrest>>

save_pipelines ==
  /\ ppc = "save_pipelines"
  /\ Guarded("pipelines", "save_signals")
  /\ UNCHANGED <<checkpoint, persistrest>>

save_signals ==
  /\ ppc = "save_signals"
  /\ Guarded("signals", "saved")
  /\ checkpoint' = IF "signals" \in failing THEN checkpoint ELSE SaveSignals(streams)
  /\ UNCHANGED persistrest

\* lines 121-125: load(path) is called
load ==
  /\ ppc = "idle"
  /\ \E f \in SUBSET Artifacts : failing' = f
  /\ ppc' = "load_config"
  /\ UNCHANGED <<handled, reported, checkpoint, persistrest>>

load_config ==
  /\ ppc = "load_config"
  /\ Guarded("config", "load_modules")
  /\ UNCHANGED <<checkpoint, persistrest>>

\* lines 141-151: every module file is loaded inside its own try
load_modules ==
  /\ ppc = "load_modules"
  /\ handled' = handled \cup (Range(ModuleItems) \ failing)
  /\ reported' = reported \cup (Range(ModuleItems) \cap failing)
  /\ ppc' = "load_pipelines"
  /\ UNCHANGED <<failing, checkpoint, persistrest>>

load_pipelines ==
  /\ ppc = "load_pipelines"
  /\ Guarded("pipelines", "load_signals")
  /\ UNCHANGED <<checkpoint, persistrest>>

load_signals ==
  /\ ppc = "load_signals"
  /\ Guarded("signals", "loaded")
  /\ UNCHANGED <<checkpoint, persistrest>>

PersistNext ==
  \/ save
  \/ save_config
  \/ save_modules
  \/ save_pipelines
  \/ save_signals
  \/ load
  \/ load_config
  \/ load_modules
  \/ load_pipelines
  \/ load_signals

\* an orchestrator that is not training, about to save or to load
InitPersist ==
  /\ DatasetIdle
  /\ nbr_distractors = [m \in Parts |-> 1]
  /\ TrainIdle

SpecPersist == InitPersist /\ [][PersistNext]_vars

\* C16: in save and in load the failure of one artifact (config, a module,
\* pipelines, signals) is caught and reported and every other artifact is
\* still written or loaded: the operation never ends with an exception, and
\* when it ends, exactly the artifacts that failed are reported and all the
\* others are handled.
C16_Claim ==
  /\ ppc # "error"
  /\ ppc \in {"saved", "loaded"} => (handled = Artifacts \ failing /\ reported = failing)

(***************************************************************************)
(* FactorVAEDisentanglementMetricModule: construction and compute.         *)
(***************************************************************************)
\* lines 30-52: the path map written in __init__, path |-> input name
DefaultInputStreamIds ==
  [p \in {"modules:logger:ref", "logs_dict", "signals:epoch", "signals:mode",
          "signals:end_of_dataset", "signals:end_of_repetition_sequence",
          "signals:end_of_communication",
          "modules:current_speaker:ref:ref_agent:cnn_encoder", "current_dataset:ref",
          "modules:current_speaker:ref:ref_agent:features",
          "current_dataloader:sample:speaker_experiences",
          "current_dataloader:sample:speaker_exp_latents",
          "current_dataloader:sample:speaker_exp_latents_values",
          "current_dataloader:sample:speaker_indices"} |->
     CASE p = "modules:logger:ref" -> "logger"
       [] p = "logs_dict" -> "logs_dict"
       [] p = "signals:epoch" -> "epoch"
       [] p = "signals:mode" -> "mode"
       [] p = "signals:end_of_dataset" -> "end_of_dataset"
       [] p = "signals:end_of_repetition_sequence" -> "end_of_repetition_sequence"
       [] p = "signals:end_of_communication" -> "end_of_communication"
       [] p = "modules:current_speaker:ref:ref_agent:cnn_encoder" -> "model"
       [] p = "current_dataset:ref" -> "dataset"
       [] p = "modules:current_speaker:ref:ref_agent:features" -> "representations"
       [] p = "current_dataloader:sample:speaker_experiences" -> "experiences"
       [] p = "current_dataloader:sample:speaker_exp_latents" -> "latent_representations"
       [] p = "current_dataloader:sample:speaker_exp_latents_values"
            -> "latent_values_representations"
       [] p = "current_dataloader:sample:speaker_indices" -> "indices"]

\* the input_stream_ids a caller passes: None, or a map of some paths it
\* rewires to input names
CallerInputStreamIds ==
  LET paths == {"modules:current_listener:ref:ref_agent:features",
                "current_dataloader:sample:listener_experiences",
                "signals:epoch", "signals:end_of_dataset"}
      names == {"representations", "end_of_dataset"}
  IN {None} \cup {Some(f) : f \in UNION {[S -> names] : S \in SUBSET paths}}

\* lines 26-57: the parameter input_stream_ids is bound anew to the default
\* map before it is handed to Module.__init__ and read for self.end_of_
FactorVAEInit(ids) == Some(DefaultInputStreamIds)

\* the configs a metric module is made with: the period of its epochs and
\* its threshold on the standard deviation of a dimension, in hundredths
MetricConfigs == [epoch_period : {1, 2}, threshold : {0, 10}]

\* lines 65-69, 286-290: every buffer an empty list
EmptyBuffers == [b \in BufferNames |-> <<>>]

metricrest == <<streams, reg_call, config, datasets, loader_len, logger,
                save_epoch_interval, tpc, nbr_epoch, init_epoch, persist, loopvars,
                counters, window, acc, serving, checkpoint, saves, resumed, terr, dsvars>>

\* lines 16-21: the builder hands its arguments to the constructor
build_FactorVAEDisentanglementMetricModule ==
  /\ mpc = "new"
  /\ \E ids \in CallerInputStreamIds :
       /\ arg_input_stream_ids' = ids
       /\ input_stream_ids' = FactorVAEInit(ids)
  /\ \E c \in MetricConfigs : self_config' = c
  /\ buffers' = EmptyBuffers
  /\ mpc' = "built"
  /\ UNCHANGED <<metric_logs_dict, input_streams_dict, active_dims, cerr>>
  /\ UNCHANGED metricrest

\* lines 24-59: the constructor called directly
FactorVAEDisentanglementMetricModule ==
  /\ mpc = "new"
  /\ \E ids \in CallerInputStreamIds :
       /\ arg_input_stream_ids' = ids
       /\ input_stream_ids' = FactorVAEInit(ids)
  /\ \E c \in MetricConfigs : self_config' = c
  /\ buffers' = EmptyBuffers
  /\ mpc' = "constructed"
  /\ UNCHANGED <<metric_logs_dict, input_streams_dict, active_dims, cerr>>
  /\ UNCHANGED metricrest

(***************************************************************************)
(* FactorVAEDisentanglementMetricModule.compute.  A batch is one sample: a *)
(* representation is a vector of NbrDims values in {0, 1}, the tensors of  *)
(* its latents and indices are tokens.  The votes of the classifier are    *)
(* drawn at random by the code; a flush that scores logs one score s.      *)
(***************************************************************************)
MaxBuffered == 2

\* the shapes of the data: the dimensions of a representation, the factors
\* of a latent, the epochs a call may be made in
NbrDims == 1
NbrFactors == 1
ComputeEpochs == 0..2

Representations == [1..NbrDims -> {0, 1}]
Scores == {50, 100}

\* line 72: the input names that hold an end_of_ signal
end_of_ ==
  {n \in Range(input_stream_ids.v) :
     n \in {"end_of_dataset", "end_of_repetition_sequence", "end_of_communication"}}

\* the signals a compute call is handed
ComputeInputs ==
  [epoch : ComputeEpochs, mode : Parts, end_of_dataset : BOOLEAN,
   end_of_repetition_sequence : BOOLEAN, end_of_communication : BOOLEAN]

\* lines 199-206: the batch is appended to four of the five buffers
Appended(bufs, r) ==
  [b \in BufferNames |->
     IF b = "representations" THEN Append(bufs[b], r)
     ELSE IF b = "representations_indices" THEN bufs[b]
     ELSE Append(bufs[b], b)]

\* lines 225: np.var(xs, axis=0, ddof=1) of samples of values in {0, 1}, as
\* a fraction: with k ones among n samples, k(n-k) / n(n-1); 0/0 is nan
np_var(xs) ==
  [d \in 1..NbrDims |->
     LET n == Len(xs)
         k == Cardinality({i \in DOMAIN xs : xs[i][d] = 1})
     IN [num |-> k * (n - k), den |-> n * (n - 1)]]

\* lines 74-77: sqrt(variance) >= threshold, false of nan
prune_dims(variances) ==
  {d \in DOMAIN variances :
     /\ variances[d].den # 0
     /\ 10000 * variances[d].num
          >= self_config.threshold * self_config.threshold * variances[d].den}

\* the keys of lines 280-284
LogKey(m, name) == m \o "/DisentanglementMetric/FactorVAE/" \o name
FactorKey(m, f) == LogKey(m, "eval_accuracy/factor_" \o ToString(f))

\* logs_dict[k] = v
LogAssign(d, k, v) == [x \in DOMAIN d \cup {k} |-> IF x = k THEN v ELSE d[x]]

\* lines 280-281 with the scores of lines 234-235
LogNoActive(d, m) ==
  LogAssign(LogAssign(d, LogKey(m, "train_accuracy"), 0),
            LogKey(m, "eval_accuracy/mean"), 0)

\* lines 282-283: one entry per factor
RECURSIVE LogFactors(_, _, _, _)
LogFactors(d, m, f, s) ==
  IF f >= NbrFactors THEN d
  ELSE LogFactors(LogAssign(d, FactorKey(m, f), s), m, f + 1, s)

\* lines 273-284: the scores of a flush with active dimensions
LogScores(d, m, s) ==
  LogAssign(
    LogFactors(
      LogAssign(LogAssign(d, LogKey(m, "train_accuracy"), s),
                LogKey(m, "eval_accuracy/mean"), s),
      m, 0, s),
    LogKey(m, "nbr_active_dims"), NbrDims)

\* lines 188-292: one call of compute
compute ==
  /\ mpc \in {"built", "constructed"}
  /\ cerr = ""
  /\ \E in \in ComputeInputs, r \in Representations, s \in Scores :
       LET due == in.epoch % self_config.epoch_period = 1
           appended == Appended(buffers, r)
           end_of_epoch == \A key \in end_of_ : in[key]
           kept == prune_dims(np_var(appended["representations"]))
       IN /\ due => Len(buffers["representations"]) < MaxBuffered
          /\ input_streams_dict' = Some(in)
          /\ IF ~due
               THEN UNCHANGED <<buffers, metric_logs_dict, cerr>> /\ active_dims' = None
             ELSE IF ~end_of_epoch
               THEN /\ buffers' = appended
                    /\ active_dims' = None
                    /\ UNCHANGED <<metric_logs_dict, cerr>>
             ELSE IF kept = {}
               \* line 282 reads per_factor_eval_accuracy, a local that only
               \* the branch of lines 238-278 binds: the buffers stay the
               \* concatenated arrays of lines 215-218
               THEN /\ active_dims' = Some(kept)
                    /\ metric_logs_dict' = LogNoActive(metric_logs_dict, in.mode)
                    /\ buffers' = appended
                    /\ cerr' = "UnboundLocalError"
             ELSE /\ active_dims' = Some(kept)
                  /\ metric_logs_dict' = LogScores(metric_logs_dict, in.mode, s)
                  /\ buffers' = EmptyBuffers
                  /\ UNCHANGED cerr
  /\ UNCHANGED <<mpc, arg_input_stream_ids, input_stream_ids, self_config>>
  /\ UNCHANGED metricrest

\* lines 24-72: the constructor called without input_stream_ids
FactorVAEDefault ==
  /\ mpc = "new"
  /\ arg_input_stream_ids' = None
  /\ input_stream_ids' = FactorVAEInit(None)
  /\ \E c \in MetricConfigs : self_config' = c
  /\ buffers' = EmptyBuffers
  /\ mpc' = "constructed"
  /\ UNCHANGED <<metric_logs_dict, input_streams_dict, active_dims, cerr>>
  /\ UNCHANGED metricrest

\* a module made with the default map and the calls of its compute
ComputeNext ==
  \/ FactorVAEDefault
  \/ compute

MetricNext ==
  \/ build_FactorVAEDisentanglementMetricModule
  \/ FactorVAEDisentanglementMetricModule

\* no module yet; the dataset and the orchestrator are not run
InitMetric ==
  /\ DatasetIdle
  /\ nbr_distractors = [m \in Parts |-> 1]
  /\ TrainIdle

SpecMetric == InitMetric /\ [][MetricNext]_vars

SpecCompute == InitMetric /\ [][ComputeNext]_vars

\* C19: a module made with an input_stream_ids of the caller resolves its
\* inputs with it: every path the caller mapped is mapped to the same input
\* name in the map the module uses, by the builder and by the constructor.
C19_Claim ==
  (mpc # "new" /\ arg_input_stream_ids.given)
    => /\ input_stream_ids.given
       /\ \A p \in DOMAIN arg_input_stream_ids.v :
            /\ p \in DOMAIN input_stream_ids.v
            /\ input_stream_ids.v[p] = arg_input_stream_ids.v[p]

(***************************************************************************)
(* Properties of FactorVAEDisentanglementMetricModule.compute, checked     *)
(* under SpecCompute.                                                      *)
(***************************************************************************)
\* the buffers grew in the step
BuffersGrow == \E b \in BufferNames : Len(buffers'[b]) > Len(buffers[b])

\* C26: a call of compute appends to the buffers only if epoch %
\* epoch_period = 1, writes into logs_dict only if moreover end_of_dataset,
\* end_of_repetition_sequence and end_of_communication are all true, and
\* after such a call every buffer is empty.
C26_Claim ==
  [][(mpc # "new" /\ input_streams_dict'.given)
       => LET in == input_streams_dict'.v
              due == in.epoch % self_config.epoch_period = 1
              ends == /\ in.end_of_dataset
                      /\ in.end_of_repetition_sequence
                      /\ in.end_of_communication
          IN /\ BuffersGrow => due
             /\ metric_logs_dict' # metric_logs_dict => (due /\ ends)
             /\ (due /\ ends) => \A b \in BufferNames : buffers'[b] = <<>>]_vars

\* C27: after a flush at which no dimension passed the threshold, compute
\* has raised nothing, logs_dict holds train_accuracy 0, eval_accuracy 0 and
\* nbr_active_dims 0 under the mode of the call, and every buffer is empty.
C27_Claim ==
  (active_dims.given /\ active_dims.v = {})
    => /\ cerr = ""
       /\ \A name \in {"train_accuracy", "eval_accuracy/mean", "nbr_active_dims"} :
            LET key == input_streams_dict.v.mode
                         \o "/DisentanglementMetric/FactorVAE/" \o name
            IN key \in DOMAIN metric_logs_dict /\ metric_logs_dict[key] = 0
       /\ \A b \in BufferNames : buffers[b] = <<>>

====
